---------------------------- MODULE Spec2Model ----------------------------
(***************************************************************************)
(* Capture-to-encode pipeline of cosmic-ext-rdp-server.                    *)
(*                                                                         *)
(*   crates/rdp-capture/src/portal.rs           start_screencast           *)
(*   crates/rdp-capture/src/pipewire_stream.rs  PwStream, run_pipewire_loop*)
(*                                              process_frame              *)
(*                                                                         *)
(* One negotiation with the ScreenCast portal is followed by one capture   *)
(* session: the caller owns the PwStream handle, the "pw-capture" thread   *)
(* runs run_pipewire_loop, the consumer owns the receiver of the bounded   *)
(* tokio mpsc channel.                                                     *)
(*                                                                         *)
(* Widths: chunk.stride() is an i32, chunk.offset()/size() are u32, usize  *)
(* is 64 bits (the Linux targets the crate is built for), the sequence     *)
(* counter is a u64.  A u32 or usize quantity is kept as a record          *)
(* [top, low] of value top * 2^31 + low with 0 <= low < 2^31, so that      *)
(* values of 2^31 and more are exact.                                      *)
(***************************************************************************)
EXTENDS Integers, Sequences, FiniteSets, TLC

\* ------------------------------------------------------------------ bounds
\* Number of process callbacks the native layer delivers in the session.
MaxDeliveries == 3
\* Number of explicit stop() calls the caller makes on the handle.
MaxStops == 2
\* Largest number of streams a portal response lists.
MaxStreams == 1
\* Longest pixel data of a frame handed to ensure_alpha_opaque, in bytes.
MaxDataLen == 8
\* ensure_alpha_opaque calls on one frame.
MaxAlphaCalls == 2
\* resize calls on one BitmapEncoder.
MaxResizes == 2

\* ------------------------------------------------------- program constants
\* i32::MAX = 2^31 - 1: the largest value of chunk.stride().
I32Max == 2147483647
\* let bpp = 4u32;
bpp == 4
\* chunk[3] = 0xFF
AlphaOpaque == 255
\* 2^15: the digit base in which the u64 product of area() is kept (TLC's
\* integers have 32 bits, a u64 has 64).
LimbBase == 32768

\* ----------------------------------------------- unsigned integer values
\* The value n (0 <= n < 2^31) as a u32 / usize.
W(n) == [top |-> 0, low |-> n]
WIsZero(a) == a.top = 0 /\ a.low = 0
\* a > b, a >= b
WGt(a, b) == a.top > b.top \/ (a.top = b.top /\ a.low > b.low)
WGeq(a, b) == a.top > b.top \/ (a.top = b.top /\ a.low >= b.low)
\* a + b on usize (64 bits: no wrap for operands below 2^32)
WAdd(a, b) ==
    LET carry == IF a.low > I32Max - b.low THEN 1 ELSE 0
    IN  [top |-> a.top + b.top + carry,
         low |-> IF carry = 1 THEN (a.low - (I32Max - b.low)) - 1
                 ELSE a.low + b.low]
\* a - b for a >= b
WSub(a, b) ==
    LET borrow == IF a.low < b.low THEN 1 ELSE 0
    IN  [top |-> a.top - b.top - borrow,
         low |-> IF borrow = 1 THEN ((a.low - b.low) + I32Max) + 1
                 ELSE a.low - b.low]
\* a / d on u32 for a divisor 1 <= d < 2^31: with 2^31 = q * d + r,
\* (2^31 + low) / d = q + low / d + (1 if r + low % d >= d).
WDivInt(a, d) ==
    IF a.top = 0 THEN W(a.low \div d)
    ELSE
    LET full == (I32Max % d) = d - 1
        q == IF full THEN WAdd(W(I32Max \div d), W(1)) ELSE W(I32Max \div d)
        r == IF full THEN 0 ELSE (I32Max % d) + 1
        extra == IF r >= d - (a.low % d) THEN 1 ELSE 0
    IN  WAdd(WAdd(q, W(a.low \div d)), W(extra))
\* a / b on u32, b # 0: a divisor with bit 31 set goes into a at most once.
WDiv(a, b) ==
    IF b.top = 0 THEN WDivInt(a, b.low)
    ELSE IF WGeq(a, b) THEN W(1) ELSE W(0)

\* --------------------------------------------------------- input domains
\* chunk.stride() values the native layer reports (i32).
Strides == {-4, 0, 3, 7680}
\* chunk.size() values (u32).
Sizes == {0, 7680, 7680 * 1080}
\* chunk.offset() values (u32).
Offsets == {0, 64}
\* data.data() of a mapped buffer: a slice of this length.
SliceLens == {7680 * 1080}
\* stream.dequeue_buffer() results: no buffer, a buffer without datas, a
\* buffer whose first data is not mapped (data.data() is None), or a buffer
\* whose first data has the given chunk and mapped slice.
NoBuffer == [kind |-> "none"]
EmptyDatas == [kind |-> "empty"]
UnmappedBuffer ==
    [kind |-> "data", stride |-> 7680, offset |-> W(0),
     size |-> W(7680 * 1080), slice |-> [mapped |-> FALSE, len |-> W(0)]]
DataBuffers ==
    { [kind |-> "data", stride |-> s, offset |-> W(o), size |-> W(z),
       slice |-> [mapped |-> TRUE, len |-> W(n)]] :
        s \in Strides, o \in Offsets, z \in Sizes, n \in SliceLens }
DequeueResults == {NoBuffer, EmptyDatas, UnmappedBuffer} \cup DataBuffers
\* Chunks at the far end of their types: strides -4 and i32::MIN (which the
\* cast turns into 2^32 - 4 and 2^31), sizes 2^31 and 2^32 - 4, and a mapped
\* slice of u32::MAX bytes.
WideStrides == {-4, -I32Max - 1, 7680}
WideSizes == {W(7680), [top |-> 1, low |-> 0], [top |-> 1, low |-> I32Max - 3]}
WideSliceLens == {[top |-> 1, low |-> I32Max]}
WideBuffers ==
    { [kind |-> "data", stride |-> s, offset |-> W(o), size |-> z,
       slice |-> [mapped |-> TRUE, len |-> n]] :
        s \in WideStrides, o \in Offsets, z \in WideSizes, n \in WideSliceLens }
WideResults == {NoBuffer, EmptyDatas, UnmappedBuffer} \cup WideBuffers
\* One dequeue result of each effect: no buffer, an accepted buffer and a
\* rejected one.
FewResults ==
    {NoBuffer} \cup
    { b \in DataBuffers :
        /\ b.stride = 7680
        /\ b.offset = W(0)
        /\ b.size \in {W(0), W(7680 * 1080)} }
\* channel_capacity arguments of PwStream::start (tokio requires > 0).
Capacities == {1, 4}

\* ---------------------------------------------------------------- state
VARIABLES
    \* start_screencast (portal.rs)
    p_pc,         \* await point of the call: "idle", a step name, "returned"
    p_calls,      \* steps of the current call, in the order they were invoked
    p_local,      \* locals of the call: streams and restore_token read
    p_result,     \* Result<PortalSession, PortalError> of the last call
    p_failed,     \* first step of the call at which the broker failed
    p_consent,    \* what the consent dialog of the call ended with
    \* PwStream handle and its caller (pipewire_stream.rs)
    h_state,      \* "none": no handle yet, "live", "dropped"
    start_err,    \* error PwStream::start returned, or "none"
    running,      \* PwStream.running: Arc<AtomicBool>
    thread,       \* PwStream.thread: "None" or "Some" (JoinHandle)
    c_pc,         \* caller: "idle", "stop_join" or "drop_join" (inside join())
    stop_calls,   \* explicit stop() calls begun
    stop_returns, \* explicit stop() calls returned
    join_calls,   \* handle.join() calls begun
    capacity,     \* channel_capacity
    \* capture thread
    t_pc,         \* position in run_pipewire_loop
    t_err,        \* PwError the loop returned, or "none"
    t_steps,      \* initialization steps run, in order
    t_failed,     \* initialization step whose native call failed, or "none"
    seq,          \* AtomicU64 sequence counter
    deliveries,   \* process callbacks invoked so far
    last,         \* dequeue result and outcome of the latest process_frame
    constructed,  \* CapturedFrames constructed, in construction order
    \* channel and consumer
    chan,         \* events queued in the mpsc channel, oldest first
    tx_open,      \* the Sender (moved into the thread) still exists
    rx_open,      \* the Receiver still exists
    received,     \* events the consumer received, in order
    dropped,      \* sequence numbers of the frames whose try_send failed
    rx_eos,       \* the consumer's recv() has returned None (end of stream)
    \* a CapturedFrame a consumer holds (frame.rs)
    a_frame,      \* the frame, its data as bytes; NoFrame when there is none
    a_orig,       \* the frame before the first ensure_alpha_opaque
    a_prev,       \* the frame before the latest ensure_alpha_opaque
    a_calls,      \* ensure_alpha_opaque calls made
    \* a DamageRect (frame.rs)
    r_args,       \* arguments x, y, width, height of the constructor
    r_via,        \* constructor used: "none", "new" or "full_frame"
    r_rect,       \* the DamageRect, NoRect before construction
    r_area,       \* result of area(), NoArea before the call
    \* a BitmapEncoder (bitmap.rs)
    e_enc,        \* the encoder's fields, NoEncoder when there is none
    e_last,       \* arguments of the latest resize, NoResize before the first
    e_calls       \* resize calls made

vars == << p_pc, p_calls, p_local, p_result, p_failed, p_consent, h_state, start_err, running,
           thread, c_pc, stop_calls, stop_returns, join_calls, capacity, t_pc,
           t_err, t_steps, t_failed, seq, deliveries, last, constructed, chan,
           tx_open, rx_open, received, dropped, rx_eos, a_frame, a_orig, a_prev,
           a_calls, r_args, r_via, r_rect, r_area, e_enc, e_last, e_calls >>

portal_vars == << p_pc, p_calls, p_local, p_result, p_failed, p_consent >>
handle_vars == << h_state, start_err, running, thread, c_pc, stop_calls, join_calls,
                  stop_returns, capacity >>
thread_vars == << t_pc, t_err, t_steps, t_failed, seq, deliveries, last,
                 constructed >>
chan_vars == << chan, tx_open, rx_open, received, dropped, rx_eos >>
capture_vars == << portal_vars, handle_vars, thread_vars, chan_vars >>
alpha_vars == << a_frame, a_orig, a_prev, a_calls >>
rect_vars == << r_args, r_via, r_rect, r_area >>
encoder_vars == << e_enc, e_last, e_calls >>
aux_vars == << alpha_vars, rect_vars, encoder_vars >>

\* ------------------------------------------------- portal.rs: negotiation
\* The steps of start_screencast in source order.
PortalSteps == << "new", "create_session", "select_sources", "start",
                  "streams", "open_pipe_wire_remote" >>

\* Result values. An Err carries the PortalError variant and its #[source].
NoResult ==
    [kind |-> "None", variant |-> "", source |-> "", streams |-> 0,
     restore_token |-> "None"]
PortalErr(variant, source) ==
    [kind |-> "Err", variant |-> variant, source |-> source, streams |-> 0,
     restore_token |-> "None"]
PortalOk(streams, token) ==
    [kind |-> "Ok", variant |-> "", source |-> "", streams |-> streams,
     restore_token |-> token]
NoLocals == [streams |-> 0, restore_token |-> "None"]

\* map_err(PortalError::Create) ... map_err(PortalError::PipeWireRemote): the
\* variant a failed broker call of the step is wrapped in.
CallErr(step) ==
    CASE step = "new" -> PortalErr("Create", "call_error")
      [] step = "create_session" -> PortalErr("Session", "call_error")
      [] step = "select_sources" -> PortalErr("SelectSources", "call_error")
      [] step = "start" -> PortalErr("Start", "call_error")
      [] step = "open_pipe_wire_remote" ->
            PortalErr("PipeWireRemote", "call_error")

\* Mutant: the response error is wrapped like a failed start call.
ResponseErr_AsStart(source) == PortalErr("Start", "call_error")

\* .response().map_err(PortalError::Response): the request's response error
\* (ResponseError::Cancelled or ResponseError::Other) wrapped unchanged.
ResponseErr(source) == PortalErr("Response", source)

\* Mutant: the Err of a step is dropped and the call goes on.
Propagates_Ignored(ok) == FALSE

\* The `?` after each map_err: an Err ends the call at once.
Propagates(ok) == ~ok

\* Mutant: the emptiness check is missing.
StreamsEmpty_Never(n) == FALSE

\* if streams.is_empty()
StreamsEmpty(n) == n = 0

\* What the broker can answer at the start step: the call fails, the request
\* is answered Cancelled or Other, or it succeeds with n streams and an
\* optional restore token.
StartAnswers ==
    { [call_ok |-> FALSE, response |-> "none", streams |-> 0,
       restore_token |-> "None"] }
    \cup { [call_ok |-> TRUE, response |-> r, streams |-> 0,
            restore_token |-> "None"] : r \in {"Cancelled", "Other"} }
    \cup { [call_ok |-> TRUE, response |-> "Ok", streams |-> n,
            restore_token |-> t] : n \in 0..MaxStreams, t \in {"None", "Some"} }

\* The call returns r; the step at which the broker failed is recorded.
PortalReturn(r) ==
    /\ p_pc' = "returned"
    /\ p_result' = r

\* pub async fn start_screencast(restore_token): the call begins and suspends
\* in Screencast::new().  A caller may call again after a failed call.
StartScreencast ==
    /\ h_state = "none"
    /\ start_err = "none"
    /\ \/ p_pc = "idle"
       \/ p_pc = "returned" /\ p_result.kind = "Err"
    /\ p_pc' = "new"
    /\ p_calls' = << "new" >>
    /\ p_local' = NoLocals
    /\ p_result' = NoResult
    /\ p_failed' = "none"
    /\ p_consent' = "none"
    /\ UNCHANGED << aux_vars, handle_vars, thread_vars, chan_vars >>

\* A broker call of `step` completes with `ok`; on success the code goes on
\* to invoke `next`.
BrokerCall(step, next) ==
    /\ p_pc = step
    /\ \E ok \in BOOLEAN :
        /\ p_failed' = IF ~ok /\ p_failed = "none" THEN step ELSE p_failed
        /\ IF Propagates(ok)
           THEN /\ PortalReturn(CallErr(step))
                /\ UNCHANGED p_calls
           ELSE /\ p_pc' = next
                /\ p_calls' = Append(p_calls, next)
                /\ UNCHANGED p_result
    /\ UNCHANGED << aux_vars, p_local, p_consent, handle_vars, thread_vars, chan_vars >>

\* Screencast::new().await.map_err(PortalError::Create)?
ProxyNew == BrokerCall("new", "create_session")

\* proxy.create_session().await.map_err(PortalError::Session)?
CreateSession == BrokerCall("create_session", "select_sources")

\* proxy.select_sources(..).await.map_err(PortalError::SelectSources)?
SelectSources == BrokerCall("select_sources", "start")

\* proxy.start(..).await.map_err(Start)?.response().map_err(Response)?, then
\* the streams are read, checked for emptiness, the restore token is read and
\* open_pipe_wire_remote is invoked.
StartSession ==
    /\ p_pc = "start"
    /\ \E a \in StartAnswers :
        LET call_failed == ~a.call_ok
            resp_failed == a.call_ok /\ a.response # "Ok"
            returns_call_err == Propagates(a.call_ok)
            returns_resp_err == ~returns_call_err /\ Propagates(~resp_failed)
            reads_streams == ~returns_call_err /\ ~returns_resp_err
            none_found == reads_streams /\ StreamsEmpty(a.streams)
        IN  /\ p_consent' = IF call_failed THEN "none"
                            ELSE IF a.response = "Ok" THEN "granted"
                            ELSE a.response
            /\ p_failed' =
                 IF p_failed # "none" THEN p_failed
                 ELSE IF call_failed \/ resp_failed THEN "start"
                 ELSE IF a.streams = 0 THEN "streams"
                 ELSE "none"
            /\ p_local' = IF reads_streams
                          THEN [streams |-> a.streams,
                                restore_token |->
                                    IF none_found THEN "None"
                                    ELSE a.restore_token]
                          ELSE p_local
            /\ p_calls' = IF ~reads_streams THEN p_calls
                          ELSE IF none_found THEN Append(p_calls, "streams")
                          ELSE p_calls \o << "streams", "open_pipe_wire_remote" >>
            /\ IF returns_call_err THEN PortalReturn(CallErr("start"))
               ELSE IF returns_resp_err THEN PortalReturn(ResponseErr(a.response))
               ELSE IF none_found THEN PortalReturn(PortalErr("NoStreams", "none"))
               ELSE /\ p_pc' = "open_pipe_wire_remote"
                    /\ UNCHANGED p_result
    /\ UNCHANGED << aux_vars, handle_vars, thread_vars, chan_vars >>

\* proxy.open_pipe_wire_remote(&session).await.map_err(PipeWireRemote)?, then
\* Ok(PortalSession { session, proxy, streams, restore_token, pipewire_fd }).
OpenPipeWireRemote ==
    /\ p_pc = "open_pipe_wire_remote"
    /\ \E ok \in BOOLEAN :
        /\ p_failed' = IF ~ok /\ p_failed = "none"
                       THEN "open_pipe_wire_remote" ELSE p_failed
        /\ IF Propagates(ok)
           THEN PortalReturn(CallErr("open_pipe_wire_remote"))
           ELSE PortalReturn(PortalOk(p_local.streams, p_local.restore_token))
    /\ UNCHANGED << aux_vars, p_calls, p_local, p_consent, handle_vars, thread_vars,
                    chan_vars >>

\* ------------------------------------- pipewire_stream.rs: process_frame
\* let stride = chunk.stride() as u32: the two's-complement reinterpretation
\* of the i32: bit 31 is set exactly for a negative stride.
StrideU32(s) ==
    [top |-> IF s < 0 THEN 1 ELSE 0,
     low |-> IF s < 0 THEN (s + I32Max) + 1 ELSE s]
U32IsZero(u) == u.top = 0 /\ u.low = 0

\* if size == 0 || stride == 0
IsDegenerate(size, stride) == WIsZero(size) \/ U32IsZero(stride)

\* Mutant: the stride in bytes is taken as the width in pixels.
FrameWidth_Bytes(stride) == stride.low

\* let width = stride / bpp   (2^31 is a multiple of bpp, so the quotient of
\* top * 2^31 + low is top * (2^31 / bpp) + low / bpp)
FrameWidth(stride) ==
    stride.top * ((I32Max \div bpp) + 1) + (stride.low \div bpp)

\* let height = if stride > 0 { (size as u32) / stride } else { 0 }
\* (size came from a u32, so the cast back changes nothing)
FrameHeight(size, stride) ==
    IF U32IsZero(stride) THEN W(0) ELSE WDiv(size, stride)

\* if width == 0 || height == 0
IsZeroDim(width, height) == width = 0 \/ WIsZero(height)

\* Mutant: the bounds check is missing.
OutOfBounds_Unchecked(end, slice_len) == FALSE

\* let end = offset + size; if end > slice.len()
OutOfBounds(end, slice_len) == WGt(end, slice_len)

\* Mutant: the whole mapped slice is copied.
SliceToVec_WholeSlice(slice_len, offset, end) ==
    [panic |-> FALSE, data |-> [from |-> W(0), len |-> slice_len]]

\* slice[offset..end].to_vec(): the copy of the range, kept as the range it
\* was copied from; indexing panics when the range is not inside the slice.
SliceToVec(slice_len, offset, end) ==
    [panic |-> WGt(offset, end) \/ WGt(end, slice_len),
     data |-> [from |-> offset, len |-> WSub(end, offset)]]

\* Mutant: the counter is read but not advanced.
FetchAdd_Load(s) == s

\* seq.fetch_add(1, Ordering::Relaxed): the counter after the call (the call
\* returns the value before it).  The u64 wraps at 2^64, out of reach here.
FetchAdd(s) == s + 1

\* fn extract_damage(stream) -> Option<Vec<DamageRect>>
extract_damage == "None"

\* Mutant: cursor metadata is found in the buffer.
extract_cursor_Some == "Some"

\* fn extract_cursor(stream) -> Option<CursorInfo>
extract_cursor == "None"

\* CapturedFrame { data, width, height, format: Bgra, stride, sequence, damage }
CapturedFrame(data, width, height, stride, sequence, damage) ==
    [data |-> data, width |-> width, height |-> height, format |-> "Bgra",
     stride |-> stride, sequence |-> sequence, damage |-> damage]

\* if let Some(cursor_info) = cursor { FrameAndCursor(..) } else { Frame(..) }
CaptureEvent(frame, cursor) ==
    [tag |-> IF cursor # "None" THEN "FrameAndCursor" ELSE "Frame",
     frame |-> frame, cursor |-> cursor]

\* Mutant: a full channel evicts its oldest event to make room.
TrySend_EvictOldest(ch, cap, rxo, event) ==
    IF ~rxo THEN [res |-> "Closed", chan |-> ch]
    ELSE IF Len(ch) >= cap THEN [res |-> "Ok", chan |-> Append(Tail(ch), event)]
    ELSE [res |-> "Ok", chan |-> Append(ch, event)]

\* Mutant: the event is queued first instead of last.
TrySend_PushFront(ch, cap, rxo, event) ==
    IF ~rxo THEN [res |-> "Closed", chan |-> ch]
    ELSE IF Len(ch) >= cap THEN [res |-> "Full", chan |-> ch]
    ELSE [res |-> "Ok", chan |-> << event >> \o ch]

\* tx.try_send(event) on the bounded tokio channel: Closed when the receiver
\* is gone, Full when `cap` events are unread, else the event is queued last.
TrySend(ch, cap, rxo, event) ==
    IF ~rxo THEN [res |-> "Closed", chan |-> ch]
    ELSE IF Len(ch) >= cap THEN [res |-> "Full", chan |-> ch]
    ELSE [res |-> "Ok", chan |-> Append(ch, event)]

\* Mutant: the sequence number is drawn on entry, before the checks.
EarlyReturn_AfterFetchAdd(outcome, s, ch) ==
    [outcome |-> outcome, frames |-> << >>, seq |-> s + 1, chan |-> ch,
     panicked |-> FALSE]

\* The `return;` of a rejected buffer: it comes before fetch_add and try_send,
\* so the counter and the channel are as they were.
EarlyReturn(outcome, s, ch) ==
    [outcome |-> outcome, frames |-> << >>, seq |-> s, chan |-> ch,
     panicked |-> FALSE]

\* fn process_frame(stream, tx, seq) on dequeue result `buf`, with the counter
\* at s and the channel holding ch: what it did (outcome), the frame it
\* constructed (none or one), the counter and the channel afterwards.
ProcessFrame(buf, s, ch, cap, rxo) ==
    LET Return(outcome) == EarlyReturn(outcome, s, ch) IN
    IF buf.kind = "none" THEN Return("no_buffer")
    ELSE IF buf.kind = "empty" THEN Return("no_datas")
    ELSE
    LET stride == StrideU32(buf.stride)
        offset == buf.offset
        size == buf.size
    IN
    IF ~buf.slice.mapped THEN Return("no_data")
    ELSE IF IsDegenerate(size, stride) THEN Return("degenerate")
    ELSE
    LET width == FrameWidth(stride)
        height == FrameHeight(size, stride)
    IN
    IF IsZeroDim(width, height) THEN Return("zero_dimension")
    ELSE
    LET end == WAdd(offset, size) IN
    IF OutOfBounds(end, buf.slice.len) THEN Return("out_of_bounds")
    ELSE
    LET copy == SliceToVec(buf.slice.len, offset, end) IN
    IF copy.panic
    THEN [outcome |-> "panic", frames |-> << >>, seq |-> s, chan |-> ch,
          panicked |-> TRUE]
    ELSE
    LET sequence == s
        frame == CapturedFrame(copy.data, width, height, stride, sequence,
                               extract_damage)
        sent == TrySend(ch, cap, rxo, CaptureEvent(frame, extract_cursor))
    IN  [outcome |-> IF sent.res = "Ok" THEN "sent" ELSE "dropped",
         frames |-> << frame >>, seq |-> FetchAdd(s), chan |-> sent.chan,
         panicked |-> FALSE]

\* ----------------------------------- pipewire_stream.rs: the capture thread
\* The initialization steps of run_pipewire_loop in source order.
InitSteps == << "main_loop", "context", "connect_fd", "create_stream",
                "register_listener", "stream_connect" >>

\* map_err(|_| PwError::..) of each initialization step.
InitErr(step) ==
    CASE step = "main_loop" -> "MainLoop"
      [] step = "context" -> "Context"
      [] step = "connect_fd" -> "ConnectFd"
      [] step = "create_stream" -> "CreateStream"
      [] step = "register_listener" -> "RegisterListener"
      [] step = "stream_connect" -> "StreamConnect"

\* The position after initialization step `step` succeeds.
AfterInit(step) ==
    LET i == CHOOSE k \in 1..Len(InitSteps) : InitSteps[k] = step
    IN  IF i = Len(InitSteps) THEN "check_running" ELSE InitSteps[i + 1]

InInit == \E k \in 1..Len(InitSteps) : InitSteps[k] = t_pc

\* Mutant: the Sender outlives the thread.
DropTx_Leaked(open) == open

\* run_pipewire_loop returns: its locals are dropped, the listener and the
\* Sender it holds as user data among them.
DropTx(open) == FALSE

\* Mutant: the error of a failed initialization step is ignored.
InitFails_Ignored(ok) == FALSE

\* The ? after each map_err(|_| PwError::..): a failed native call makes
\* run_pipewire_loop return.
InitFails(ok) == ~ok

\* One initialization step of run_pipewire_loop: on failure the function
\* returns the step's error, the closure logs it and the thread ends, which
\* drops frame_tx.
InitStep ==
    /\ InInit
    /\ t_steps' = Append(t_steps, t_pc)
    /\ \E ok \in BOOLEAN :
        /\ t_failed' = IF ~ok /\ t_failed = "none" THEN t_pc ELSE t_failed
        /\ IF InitFails(ok)
           THEN /\ t_pc' = "exited"
                /\ t_err' = InitErr(t_pc)
                /\ tx_open' = DropTx(tx_open)
           ELSE /\ t_pc' = AfterInit(t_pc)
                /\ UNCHANGED << t_err, tx_open >>
    /\ UNCHANGED << aux_vars, portal_vars, handle_vars, seq, deliveries, last,
                    constructed, chan, rx_open, received, dropped, rx_eos >>

\* Mutant: the loop does not look at the flag.
LoopContinues_Always(r) == TRUE

\* The condition of while running.load(Ordering::SeqCst).
LoopContinues(r) == r

\* while running.load(Ordering::SeqCst): enter the next iteration, or leave
\* the loop and return Ok(()), which ends the thread and drops frame_tx.
CheckRunning ==
    /\ t_pc = "check_running"
    /\ IF LoopContinues(running)
       THEN /\ t_pc' = "iterate"
            /\ UNCHANGED tx_open
       ELSE /\ t_pc' = "exited"
            /\ tx_open' = DropTx(tx_open)
    /\ UNCHANGED << aux_vars, portal_vars, handle_vars, t_err, t_steps, t_failed, seq,
                    deliveries, last, constructed, chan, rx_open, received,
                    dropped, rx_eos >>

\* Inside mainloop.loop_().iterate(50ms): the native layer invokes the process
\* callback, which runs process_frame on what dequeue_buffer() yields.  A panic
\* in the callback ends the thread.
ProcessCallbackOn(results) ==
    /\ t_pc = "iterate"
    /\ deliveries < MaxDeliveries
    /\ \E buf \in results :
        LET r == ProcessFrame(buf, seq, chan, capacity, rx_open)
        IN  /\ seq' = r.seq
            /\ chan' = r.chan
            /\ constructed' = constructed \o r.frames
            /\ last' = [buf |-> buf, outcome |-> r.outcome]
            /\ dropped' = IF r.outcome = "dropped"
                          THEN dropped \cup {seq} ELSE dropped
            /\ t_pc' = IF r.panicked THEN "panicked" ELSE "iterate"
    /\ deliveries' = deliveries + 1
    /\ UNCHANGED << aux_vars, portal_vars, handle_vars, t_err, t_steps, t_failed,
                    tx_open, rx_open, received, rx_eos >>

\* The process callback on buffers of ordinary sizes.
ProcessCallback == ProcessCallbackOn(DequeueResults)

\* The process callback on buffers whose stride is negative or whose sizes
\* reach 2^31 and beyond.
ProcessCallbackWide == ProcessCallbackOn(WideResults)

\* The process callback on three dequeue results: none, a frame of
\* 1920 x 1080 and a buffer of size zero.
ProcessCallbackFew == ProcessCallbackOn(FewResults)

\* iterate() returns (its events are handled or its timeout has passed).
IterateReturn ==
    /\ t_pc = "iterate"
    /\ t_pc' = "check_running"
    /\ UNCHANGED << aux_vars, portal_vars, handle_vars, t_err, t_steps, t_failed, seq,
                    deliveries, last, constructed, chan_vars >>

\* ------------------------------------- pipewire_stream.rs: PwStream handle
\* Mutant: stop() leaves the flag as it is.
StopStore_Skipped(r) == r

\* self.running.store(false, Ordering::SeqCst)
StopStore(r) == FALSE

\* if let Some(handle) = self.thread.take()
StopTakes(th) == th = "Some"

\* Mutant: the thread is detached instead of joined.
JoinCompletes_Detached(pc) == TRUE

\* handle.join() returns once the thread has finished (normally or by panic).
JoinCompletes(pc) == pc \in {"exited", "panicked"}

\* PwStream::start(pipewire_fd, node_id, channel_capacity) with the descriptor
\* of a successful negotiation: the channel and the flag are created and the
\* thread is spawned; a failed spawn returns PwError::SpawnThread.
Start ==
    /\ h_state = "none"
    /\ start_err = "none"
    /\ p_pc = "returned"
    /\ p_result.kind = "Ok"
    /\ \E cap \in Capacities, spawned \in BOOLEAN :
        IF spawned
        THEN /\ h_state' = "live"
             /\ running' = TRUE
             /\ thread' = "Some"
             /\ capacity' = cap
             /\ t_pc' = InitSteps[1]
             /\ tx_open' = TRUE
             /\ rx_open' = TRUE
             /\ UNCHANGED start_err
        ELSE /\ start_err' = "SpawnThread"
             /\ UNCHANGED << h_state, running, thread, capacity, t_pc,
                             tx_open, rx_open >>
    /\ UNCHANGED << aux_vars, portal_vars, c_pc, stop_calls, stop_returns, join_calls,
                    t_err, t_steps, t_failed, seq, deliveries, last,
                    constructed, chan, received, dropped, rx_eos >>

\* pub fn stop(&mut self): the flag is cleared; with a join handle the caller
\* takes it and enters join(), without one the call returns at once.
Stop ==
    /\ h_state = "live"
    /\ c_pc = "idle"
    /\ stop_calls < MaxStops
    /\ running' = StopStore(running)
    /\ stop_calls' = stop_calls + 1
    /\ IF StopTakes(thread)
       THEN /\ thread' = "None"
            /\ c_pc' = "stop_join"
            /\ join_calls' = join_calls + 1
            /\ UNCHANGED stop_returns
       ELSE /\ stop_returns' = stop_returns + 1
            /\ UNCHANGED << thread, c_pc, join_calls >>
    /\ UNCHANGED << aux_vars, portal_vars, h_state, start_err, capacity, thread_vars,
                    chan_vars >>

\* impl Drop for PwStream: drop() calls stop(), then the handle is gone.
Drop ==
    /\ h_state = "live"
    /\ c_pc = "idle"
    /\ running' = StopStore(running)
    /\ IF StopTakes(thread)
       THEN /\ thread' = "None"
            /\ c_pc' = "drop_join"
            /\ join_calls' = join_calls + 1
            /\ UNCHANGED h_state
       ELSE /\ h_state' = "dropped"
            /\ UNCHANGED << thread, c_pc, join_calls >>
    /\ UNCHANGED << aux_vars, portal_vars, start_err, stop_calls, stop_returns,
                    capacity, thread_vars, chan_vars >>

\* let _ = handle.join(): returns when the thread has finished; stop() then
\* returns, and a drop is complete.
JoinReturn ==
    /\ c_pc \in {"stop_join", "drop_join"}
    /\ JoinCompletes(t_pc)
    /\ c_pc' = "idle"
    /\ IF c_pc = "stop_join"
       THEN /\ stop_returns' = stop_returns + 1
            /\ UNCHANGED h_state
       ELSE /\ h_state' = "dropped"
            /\ UNCHANGED stop_returns
    /\ UNCHANGED << aux_vars, portal_vars, start_err, running, thread, stop_calls,
                    join_calls, capacity, thread_vars, chan_vars >>

\* ------------------------------------------------------------ the consumer
\* rx.recv() takes the oldest queued event.
Recv ==
    /\ rx_open
    /\ chan # << >>
    /\ received' = Append(received, Head(chan))
    /\ chan' = Tail(chan)
    /\ UNCHANGED << aux_vars, portal_vars, handle_vars, thread_vars, tx_open, rx_open,
                    dropped, rx_eos >>

\* rx.recv() returns None: nothing is queued and no Sender exists.
RecvNone ==
    /\ rx_open
    /\ chan = << >>
    /\ ~tx_open
    /\ ~rx_eos
    /\ rx_eos' = TRUE
    /\ UNCHANGED << aux_vars, portal_vars, handle_vars, thread_vars, chan,
                    tx_open, rx_open, received, dropped >>

\* The consumer drops the receiver: the channel closes and what is queued is
\* discarded.
RxDrop ==
    /\ rx_open
    /\ rx_open' = FALSE
    /\ chan' = << >>
    /\ UNCHANGED << aux_vars, portal_vars, handle_vars, thread_vars, tx_open, received,
                    dropped, rx_eos >>

\* ------------------------------------------- frame.rs: CapturedFrame bytes
\* Byte values of pixel data: zero, a middle value and 0xFF itself.
Bytes == {0, 127, 255}
\* Vec<u8> contents of up to MaxDataLen bytes, partial trailing pixel included.
Datas == UNION { [1..n -> Bytes] : n \in 0..MaxDataLen }
\* enum PixelFormat
PixelFormats == {"Bgra", "Rgba"}
\* CapturedFrames with their data as bytes (all fields are public, so any data
\* length can come with any geometry).
Frames ==
    { [data |-> d, width |-> 2, height |-> 1, format |-> f, stride |-> 8,
       sequence |-> q, damage |-> "None"] :
        d \in Datas, f \in PixelFormats, q \in {7} }
NoFrame == [format |-> "none"]

\* self.data.chunks_exact_mut(4): byte i (from 1) lies in one of the
\* len / 4 complete chunks.
InExactChunk(i, len) == (i - 1) \div 4 < len \div 4

\* Mutant: the alpha bytes are written whatever the format.
ensure_alpha_opaque_AnyFormat(f) ==
    [f EXCEPT !.data =
        [i \in 1..Len(f.data) |->
            IF i % 4 = 0 THEN AlphaOpaque ELSE f.data[i]]]

\* pub fn ensure_alpha_opaque(&mut self): the frame after the call.
ensure_alpha_opaque(f) ==
    IF f.format = "Bgra"
    THEN [f EXCEPT !.data =
            [i \in 1..Len(f.data) |->
                IF InExactChunk(i, Len(f.data)) /\ (i - 1) % 4 = 3
                THEN AlphaOpaque ELSE f.data[i]]]
    ELSE f

\* No frame is held outside the capture session.
AlphaIdle ==
    /\ a_frame = NoFrame
    /\ a_orig = NoFrame
    /\ a_prev = NoFrame
    /\ a_calls = 0

\* A consumer holds some frame.
AlphaInit ==
    /\ a_frame \in Frames
    /\ a_orig = a_frame
    /\ a_prev = a_frame
    /\ a_calls = 0

\* frame.ensure_alpha_opaque()
EnsureAlphaOpaque ==
    /\ a_frame # NoFrame
    /\ a_calls < MaxAlphaCalls
    /\ a_frame' = ensure_alpha_opaque(a_frame)
    /\ a_prev' = a_frame
    /\ a_calls' = a_calls + 1
    /\ UNCHANGED << capture_vars, a_orig, rect_vars, encoder_vars >>

\* ----------------------------------------------------- frame.rs: DamageRect
\* u32 width and height arguments, on both sides of 2^16 (65536 * 65536 is
\* 2^32, the first product that does not fit 32 bits).
Dims == {0, 1, 1920, 65535, 65536, 1048576}
\* i32 x and y arguments.
Coords == {-5, 0, 7}
NoArgs == [x |-> 0, y |-> 0, width |-> 0, height |-> 0]
NoRect == [kind |-> "none"]
NoArea == << >>

\* A u64 as four digits of base LimbBase, least significant first.
\* u64::from(n) for n < LimbBase^2.
U64From(n) == << n % LimbBase, n \div LimbBase, 0, 0 >>

\* Mutant: the product is formed in 32 bits (wrapping at 2^32 = 4 * LimbBase^2).
U64Mul_Wrapping32(a, b) ==
    LET p0 == a[1] * b[1]
        t1 == a[1] * b[2] + a[2] * b[1] + p0 \div LimbBase
        t2 == a[2] * b[2] + t1 \div LimbBase
    IN  << p0 % LimbBase, t1 % LimbBase, (t2 % LimbBase) % 4, 0 >>

\* a * b of two u64 that came from u32 below LimbBase^2: schoolbook product
\* with carries; it is below 2^60 and cannot wrap at 2^64.
U64Mul(a, b) ==
    LET p0 == a[1] * b[1]
        t1 == a[1] * b[2] + a[2] * b[1] + p0 \div LimbBase
        t2 == a[2] * b[2] + t1 \div LimbBase
    IN  << p0 % LimbBase, t1 % LimbBase, t2 % LimbBase, t2 \div LimbBase >>

\* pub fn new(x, y, width, height) -> Self
DamageRect(x, y, width, height) ==
    [x |-> x, y |-> y, width |-> width, height |-> height]

\* pub fn full_frame(width, height) -> Self { Self::new(0, 0, width, height) }
full_frame(width, height) == DamageRect(0, 0, width, height)

\* pub fn area(&self) -> u64
area(r) == U64Mul(U64From(r.width), U64From(r.height))

\* No rectangle exists outside the capture session.
RectIdle ==
    /\ r_args = NoArgs
    /\ r_via = "none"
    /\ r_rect = NoRect
    /\ r_area = NoArea

\* Arguments for a rectangle are at hand.
RectInit ==
    /\ r_args \in [x : Coords, y : Coords, width : Dims, height : Dims]
    /\ r_via = "none"
    /\ r_rect = NoRect
    /\ r_area = NoArea

\* DamageRect::new(x, y, width, height)
RectNew ==
    /\ r_via = "none"
    /\ r_via' = "new"
    /\ r_rect' = DamageRect(r_args.x, r_args.y, r_args.width, r_args.height)
    /\ UNCHANGED << capture_vars, alpha_vars, r_args, r_area, encoder_vars >>

\* DamageRect::full_frame(width, height)
RectFullFrame ==
    /\ r_via = "none"
    /\ r_via' = "full_frame"
    /\ r_rect' = full_frame(r_args.width, r_args.height)
    /\ UNCHANGED << capture_vars, alpha_vars, r_args, r_area, encoder_vars >>

\* rect.area()
RectArea ==
    /\ r_rect # NoRect
    /\ r_area = NoArea
    /\ r_area' = area(r_rect)
    /\ UNCHANGED << capture_vars, alpha_vars, r_args, r_via, r_rect,
                    encoder_vars >>

\* ------------------------------------------------ bitmap.rs: BitmapEncoder
\* Frame geometries an encoder is created with or resized to.
EncoderDims == { [width |-> 1920, height |-> 1080],
                 [width |-> 1280, height |-> 720] }
NoEncoder == [width |-> 0, height |-> 0, exists |-> FALSE]
NoResize == [width |-> 0, height |-> 0, called |-> FALSE]

\* pub fn new(width, height) -> Self
BitmapEncoder(w, h) == [width |-> w, height |-> h, exists |-> TRUE]

\* pub fn width(&self) -> u32
EncoderWidth(e) == e.width

\* pub fn height(&self) -> u32
EncoderHeight(e) == e.height

\* Mutant: resize updates the width only.
resize_WidthOnly(e, w, h) == [e EXCEPT !.width = w]

\* pub fn resize(&mut self, width, height): the encoder after the call.
resize(e, w, h) == [e EXCEPT !.width = w, !.height = h]

\* No encoder exists.
EncoderIdle ==
    /\ e_enc = NoEncoder
    /\ e_last = NoResize
    /\ e_calls = 0

\* BitmapEncoder::new(width, height) has been called.
EncoderInit ==
    /\ \E d \in EncoderDims : e_enc = BitmapEncoder(d.width, d.height)
    /\ e_last = NoResize
    /\ e_calls = 0

\* encoder.resize(width, height)
Resize ==
    /\ e_enc.exists
    /\ e_calls < MaxResizes
    /\ \E d \in EncoderDims :
        /\ e_enc' = resize(e_enc, d.width, d.height)
        /\ e_last' = [width |-> d.width, height |-> d.height, called |-> TRUE]
    /\ e_calls' = e_calls + 1
    /\ UNCHANGED << capture_vars, alpha_vars, rect_vars >>

\* ------------------------------------------------------------ specification
NoCall == [buf |-> NoBuffer, outcome |-> "none"]

InitCapture ==
    /\ p_pc = "idle"
    /\ p_calls = << >>
    /\ p_local = NoLocals
    /\ p_result = NoResult
    /\ p_failed = "none"
    /\ p_consent = "none"
    /\ h_state = "none"
    /\ start_err = "none"
    /\ running = FALSE
    /\ thread = "None"
    /\ c_pc = "idle"
    /\ stop_calls = 0
    /\ stop_returns = 0
    /\ join_calls = 0
    /\ capacity = 0
    /\ t_pc = "unspawned"
    /\ t_err = "none"
    /\ t_steps = << >>
    /\ t_failed = "none"
    /\ seq = 0
    /\ deliveries = 0
    /\ last = NoCall
    /\ constructed = << >>
    /\ chan = << >>
    /\ tx_open = FALSE
    /\ rx_open = FALSE
    /\ received = << >>
    /\ dropped = {}
    /\ rx_eos = FALSE

Init == InitCapture /\ AlphaIdle /\ RectIdle /\ EncoderIdle

Next ==
    \/ StartScreencast
    \/ ProxyNew
    \/ CreateSession
    \/ SelectSources
    \/ StartSession
    \/ OpenPipeWireRemote
    \/ Start
    \/ Stop
    \/ Drop
    \/ JoinReturn
    \/ InitStep
    \/ CheckRunning
    \/ ProcessCallback
    \/ IterateReturn
    \/ Recv
    \/ RxDrop

Spec == Init /\ [][Next]_vars

\* ensure_alpha_opaque applied to a frame a consumer holds.
InitFrame == InitCapture /\ AlphaInit /\ RectIdle /\ EncoderIdle

NextFrame == EnsureAlphaOpaque

SpecFrame == InitFrame /\ [][NextFrame]_vars

\* DamageRect constructed and measured.
InitRect == InitCapture /\ AlphaIdle /\ RectInit /\ EncoderIdle

NextRect ==
    \/ RectNew
    \/ RectFullFrame
    \/ RectArea

SpecRect == InitRect /\ [][NextRect]_vars

\* A capture session in its run phase (negotiation granted with one stream,
\* start succeeded, the six initialization steps done, nothing delivered yet).
InitSession ==
    /\ p_pc = "returned"
    /\ p_calls = PortalSteps
    /\ p_local = [streams |-> 1, restore_token |-> "Some"]
    /\ p_result = PortalOk(1, "Some")
    /\ p_failed = "none"
    /\ p_consent = "granted"
    /\ h_state = "live"
    /\ start_err = "none"
    /\ running = TRUE
    /\ thread = "Some"
    /\ c_pc = "idle"
    /\ stop_calls = 0
    /\ stop_returns = 0
    /\ join_calls = 0
    /\ capacity \in Capacities
    /\ t_pc = "check_running"
    /\ t_err = "none"
    /\ t_steps = InitSteps
    /\ t_failed = "none"
    /\ seq = 0
    /\ deliveries = 0
    /\ last = NoCall
    /\ constructed = << >>
    /\ chan = << >>
    /\ tx_open = TRUE
    /\ rx_open = TRUE
    /\ received = << >>
    /\ dropped = {}
    /\ rx_eos = FALSE

\* The run phase of a session fed with buffers at the far end of their types.
InitWide == InitSession /\ AlphaIdle /\ RectIdle /\ EncoderIdle

NextWide ==
    \/ CheckRunning
    \/ ProcessCallbackWide
    \/ IterateReturn
    \/ Recv
    \/ RxDrop

SpecWide == InitWide /\ [][NextWide]_vars

\* A BitmapEncoder next to a session in its run phase.
InitEncoder == InitSession /\ AlphaIdle /\ RectIdle /\ EncoderInit

NextEncoder ==
    \/ Resize
    \/ CheckRunning
    \/ ProcessCallback
    \/ IterateReturn
    \/ Recv

SpecEncoder == InitEncoder /\ [][NextEncoder]_vars

\* The program with one dequeue result of each effect.
NextShutdown ==
    \/ StartScreencast
    \/ ProxyNew
    \/ CreateSession
    \/ SelectSources
    \/ StartSession
    \/ OpenPipeWireRemote
    \/ Start
    \/ Stop
    \/ Drop
    \/ JoinReturn
    \/ InitStep
    \/ CheckRunning
    \/ ProcessCallbackFew
    \/ IterateReturn
    \/ Recv
    \/ RxDrop

\* The capture thread is an OS thread that keeps being scheduled: each native
\* initialization call returns, iterate() returns once its events are handled
\* or its 50 ms timeout has passed, the loop condition is then evaluated, and
\* join() returns once the thread has finished.  Nothing is assumed of the
\* consumer, the caller or the rate of buffers.
FairSpec ==
    /\ Init
    /\ [][NextShutdown]_vars
    /\ WF_vars(InitStep)
    /\ WF_vars(IterateReturn)
    /\ WF_vars(CheckRunning)
    /\ WF_vars(JoinReturn)

\* The program with a consumer whose recv() also meets the end of the stream.
NextEndOfStream ==
    \/ StartScreencast
    \/ ProxyNew
    \/ CreateSession
    \/ SelectSources
    \/ StartSession
    \/ OpenPipeWireRemote
    \/ Start
    \/ Stop
    \/ Drop
    \/ JoinReturn
    \/ InitStep
    \/ CheckRunning
    \/ ProcessCallbackFew
    \/ IterateReturn
    \/ Recv
    \/ RecvNone
    \/ RxDrop

\* The thread is scheduled as in FairSpec, and the consumer keeps calling
\* recv() for as long as it holds the receiver: a recv() that can return an
\* event or None does return.  Nothing is assumed of the caller.
FairConsumerSpec ==
    /\ Init
    /\ [][NextEndOfStream]_vars
    /\ WF_vars(InitStep)
    /\ WF_vars(IterateReturn)
    /\ WF_vars(CheckRunning)
    /\ WF_vars(JoinReturn)
    /\ WF_vars(Recv)
    /\ WF_vars(RecvNone)

\* ------------------------------------------------------------------ claims
\* The step of a behaviour in which process_frame ran.
ProcessStep == deliveries' = deliveries + 1

\* C1: within the capture session the sequence numbers of the constructed
\* CapturedFrames strictly increase in construction order, whatever buffers
\* were delivered and whatever the consumer did.
C1_SequenceStrictlyIncreasing ==
    \A i, j \in 1..Len(constructed) :
        i < j => constructed[i].sequence < constructed[j].sequence

\* Two frames were constructed, a rejected buffer lay between or around them
\* and the latest frame was dropped on a full or closed channel.
C1_Witness ==
    /\ Len(constructed) >= 2
    /\ deliveries > Len(constructed)
    /\ last.outcome = "dropped"

\* C2: when the channel holds as many unread events as its capacity,
\* process_frame on a further valid buffer constructs the frame, discards it,
\* leaves the queued events as they were and returns to the loop iteration.
C2_FullChannelDropsWithoutBlocking ==
    [][ ( /\ ProcessStep
          /\ rx_open
          /\ Len(chan) >= capacity
          /\ Len(constructed') = Len(constructed) + 1 )
        => ( /\ chan' = chan
             /\ last'.outcome = "dropped"
             /\ received' = received
             /\ t_pc' = "iterate" ) ]_vars

\* Capacity 1, frame 0 unread in the channel, frame 1 constructed and dropped,
\* the thread still inside its loop.
C2_Witness ==
    /\ capacity = 1
    /\ rx_open
    /\ Len(chan) = 1
    /\ chan[1].frame.sequence = 0
    /\ Len(constructed) = 2
    /\ last.outcome = "dropped"
    /\ t_pc = "iterate"

\* C3: stop() may be called repeatedly: once a stop() has returned the thread
\* has exited, and every later stop(), and the stop() made by Drop, returns in
\* the same step without entering join(), the flag staying cleared and the
\* join handle staying None.
C3_StopIdempotent ==
    /\ [](stop_returns >= 1 => t_pc \in {"exited", "panicked"})
    /\ [][ (stop_calls' = stop_calls + 1 /\ stop_calls >= 1)
           => ( /\ ~running /\ thread = "None"
                /\ stop_returns' = stop_returns + 1
                /\ c_pc' = "idle"
                /\ ~running' /\ thread' = "None" ) ]_vars
    /\ [][ ( /\ stop_returns >= 1
             /\ h_state = "live"
             /\ c_pc = "idle"
             /\ stop_calls' = stop_calls
             /\ (h_state' # h_state \/ c_pc' # c_pc) )
           => ( /\ h_state' = "dropped"
                /\ c_pc' = "idle"
                /\ ~running' /\ thread' = "None" ) ]_vars

\* stop() was called twice and returned twice, then the handle was dropped.
C3_Witness ==
    /\ stop_calls = 2
    /\ stop_returns = 2
    /\ h_state = "dropped"
    /\ t_pc = "exited"

\* C4: for a dequeued buffer whose chunk reports stride = 0 or size = 0,
\* process_frame constructs no frame, sends nothing and leaves the sequence
\* counter at its previous value.
C4_DegenerateBufferRejected ==
    [][ ( /\ ProcessStep
          /\ last'.buf.kind = "data"
          /\ (last'.buf.stride = 0 \/ last'.buf.size = W(0)) )
        => ( /\ constructed' = constructed
             /\ chan' = chan
             /\ seq' = seq ) ]_vars

\* A mapped buffer with stride 0 was processed after a frame had been
\* constructed: the counter still reads 1.
C4_Witness ==
    /\ last.buf.kind = "data"
    /\ last.buf.slice.mapped
    /\ last.buf.stride = 0
    /\ last.buf.size # W(0)
    /\ last.outcome = "degenerate"
    /\ Len(constructed) = 1
    /\ seq = 1

\* C5: for a dequeued buffer whose offset + size exceeds the length of the
\* mapped slice, process_frame constructs no frame, does not index the slice
\* (so it neither reads outside it nor panics) and the loop goes on.
C5_OutOfBoundsRejected ==
    [][ ( /\ ProcessStep
          /\ last'.buf.kind = "data"
          /\ last'.buf.slice.mapped
          /\ WGt(WAdd(last'.buf.offset, last'.buf.size),
                 last'.buf.slice.len) )
        => ( /\ constructed' = constructed
             /\ chan' = chan
             /\ seq' = seq
             /\ last'.outcome \in {"degenerate", "zero_dimension",
                                   "out_of_bounds"}
             /\ t_pc' = "iterate" ) ]_vars

\* A buffer with valid stride and size whose range ends past the slice was
\* rejected by the bounds check, and the thread is still inside its loop.
C5_Witness ==
    /\ last.buf.kind = "data"
    /\ last.buf.stride = 7680
    /\ WGt(WAdd(last.buf.offset, last.buf.size), last.buf.slice.len)
    /\ last.outcome = "out_of_bounds"
    /\ t_pc = "iterate"

\* The handle still presents the stream as alive: it exists, its flag is set
\* and it holds the join handle of the thread.
HandlePresentsAlive == h_state = "live" /\ running /\ thread = "Some"

\* C6: when run_pipewire_loop has returned an error and the thread has
\* exited, the handle does not go on presenting the stream as alive.
C6_DeadThreadNotPresentedAlive ==
    (t_pc = "exited" /\ t_err # "none") => ~HandlePresentsAlive

\* The PortalError variant that names the failure of a step.
StepOfVariant(variant) ==
    CASE variant = "Create" -> "new"
      [] variant = "Session" -> "create_session"
      [] variant = "SelectSources" -> "select_sources"
      [] variant \in {"Start", "Response"} -> "start"
      [] variant = "NoStreams" -> "streams"
      [] variant = "PipeWireRemote" -> "open_pipe_wire_remote"
      [] OTHER -> "none"

\* The steps invoked so far, as a set.
Invoked == { p_calls[i] : i \in 1..Len(p_calls) }

\* C7: start_screencast returns Ok only with a non-empty stream list; when
\* the started session reports no stream the call returns NoStreams and
\* open_pipe_wire_remote is never invoked.
C7_NoStreamsFails ==
    /\ p_result.kind = "Ok" => p_result.streams >= 1
    /\ p_failed = "streams" =>
          /\ p_pc = "returned"
          /\ p_result = PortalErr("NoStreams", "none")
          /\ "open_pipe_wire_remote" \notin Invoked

\* The session started with the user's consent and listed no stream.
C7_Witness ==
    /\ p_failed = "streams"
    /\ p_consent = "granted"
    /\ p_pc = "returned"
    /\ p_calls = SubSeq(PortalSteps, 1, 5)

\* C8: the steps of one call run in the fixed order, each at most once; the
\* first step that fails ends the call with the error variant of that step,
\* and no later step is invoked.
C8_StepsInOrderFirstFailureEnds ==
    /\ Len(p_calls) <= Len(PortalSteps)
    /\ \A i \in 1..Len(p_calls) : p_calls[i] = PortalSteps[i]
    /\ p_failed # "none" =>
          /\ p_pc = "returned"
          /\ p_result.kind = "Err"
          /\ StepOfVariant(p_result.variant) = p_failed
          /\ p_calls[Len(p_calls)] = p_failed
    /\ p_result.kind = "Err" => p_failed # "none"
    /\ p_result.kind = "Ok" => p_calls = PortalSteps

\* select_sources failed: the call has returned SelectSources after three
\* steps.
C8_Witness ==
    /\ p_failed = "select_sources"
    /\ p_pc = "returned"
    /\ p_result.variant = "SelectSources"
    /\ Len(p_calls) = 3

\* C9: at the start step a failed start call and a cancelled consent dialog
\* are returned as different error values, and the value that identifies a
\* cancellation is returned only when the user cancelled.
C9_CancelDistinctFromStartFailure ==
    LET cancelled == PortalErr("Response", "Cancelled") IN
    /\ p_consent = "Cancelled" => p_result = cancelled
    /\ p_result = cancelled => p_consent = "Cancelled"
    /\ (p_failed = "start" /\ p_consent = "none") =>
          /\ p_result.kind = "Err"
          /\ p_result.variant = "Start"
          /\ p_result # cancelled

\* The user cancelled the consent dialog and the call has returned.
C9_Witness ==
    /\ p_consent = "Cancelled"
    /\ p_pc = "returned"
    /\ p_result.kind = "Err"

\* The buffer of the end-to-end scenario: stride 7680, size 7680 * 1080.
ScenarioBuffer(b) ==
    /\ b.kind = "data"
    /\ b.slice.mapped
    /\ b.stride = 7680
    /\ b.size = W(7680 * 1080)
    /\ ~WGt(WAdd(b.offset, b.size), b.slice.len)

\* The events of the constructed frames, in construction order.
ConstructedEvents ==
    [i \in 1..Len(constructed) |->
        [tag |-> "Frame", frame |-> constructed[i], cursor |-> "None"]]

\* C10: every constructed frame has width = stride / 4 and height =
\* size / stride, both at least 1, and a buffer with a zero quotient is
\* rejected; a delivery with stride 7680 and size 7680 * 1080 yields a frame
\* of 1920 x 1080, a session whose deliveries were all accepted numbers its
\* frames 0, 1, 2, ..., and with a capacity that the frames do not exceed the
\* consumer finds exactly these frames, in this order.
C10_DimensionsFromStrideAndSize ==
    /\ \A i \in 1..Len(constructed) :
          LET f == constructed[i] IN
          /\ f.width >= 1
          /\ f.height # W(0)
          /\ (f.stride.top = 0 /\ f.data.len.top = 0) =>
                /\ f.width = f.stride.low \div 4
                /\ f.height = W(f.data.len.low \div f.stride.low)
    /\ ( /\ last.buf.kind = "data"
         /\ last.buf.stride > 0
         /\ last.buf.size.top = 0
         /\ \/ last.buf.stride \div 4 = 0
            \/ last.buf.size.low \div last.buf.stride = 0 )
       => last.outcome \notin {"sent", "dropped"}
    /\ (last.outcome \in {"sent", "dropped"} /\ last.buf.stride > 0
          /\ last.buf.size.top = 0) =>
          LET f == constructed[Len(constructed)] IN
          /\ f.width = last.buf.stride \div 4
          /\ f.height = W(last.buf.size.low \div last.buf.stride)
          /\ f.sequence = seq - 1
    /\ ScenarioBuffer(last.buf) =>
          /\ last.outcome \in {"sent", "dropped"}
          /\ constructed[Len(constructed)].width = 1920
          /\ constructed[Len(constructed)].height = W(1080)
    /\ deliveries = Len(constructed) =>
          \A i \in 1..Len(constructed) : constructed[i].sequence = i - 1
    /\ (rx_open /\ Len(constructed) <= capacity) =>
          received \o chan = ConstructedEvents

\* Capacity 4, three deliveries of the scenario buffer, three frames of
\* 1920 x 1080 numbered 0, 1, 2, all three received in this order.
C10_Witness ==
    /\ capacity = 4
    /\ deliveries = 3
    /\ Len(constructed) = 3
    /\ \A i \in 1..3 :
          /\ constructed[i].width = 1920
          /\ constructed[i].height = W(1080)
          /\ constructed[i].stride = W(7680)
          /\ constructed[i].sequence = i - 1
    /\ received = ConstructedEvents

\* C11: when the native call of an initialization step fails,
\* run_pipewire_loop ends at that step with that step's own error, which no
\* other step has; no later step runs, the loop is never entered, no frame
\* is constructed and nothing is put into the channel.
C11_InitFailureEndsAtStep ==
    t_failed # "none" =>
          /\ \A i \in 1..Len(InitSteps) :
                InitSteps[i] # t_failed => InitErr(InitSteps[i]) # t_err
          /\ t_pc = "exited"
          /\ t_err = InitErr(t_failed)
          /\ t_steps # << >>
          /\ t_steps[Len(t_steps)] = t_failed
          /\ t_steps = SubSeq(InitSteps, 1, Len(t_steps))
          /\ deliveries = 0
          /\ seq = 0
          /\ constructed = << >>
          /\ chan = << >>
          /\ received = << >>

\* Listener registration failed after four successful steps.
C11_Witness ==
    /\ t_failed = "register_listener"
    /\ t_err = "RegisterListener"
    /\ Len(t_steps) = 5
    /\ t_pc = "exited"

\* A buffer that passes every check of process_frame (sizes below 2^31).
ValidBuffer(b) ==
    /\ b.kind = "data"
    /\ b.slice.mapped
    /\ b.stride >= 4
    /\ b.size.top = 0 /\ b.offset.top = 0 /\ b.slice.len.top = 0
    /\ b.size.low >= b.stride
    /\ b.offset.low + b.size.low <= b.slice.len.low

PlainFrames(events) ==
    \A i \in 1..Len(events) :
        /\ events[i].tag = "Frame"
        /\ events[i].cursor = "None"
        /\ events[i].frame.damage = "None"

\* C14: every event in the channel or received is a plain Frame event with
\* damage None, every constructed frame has damage None, and a buffer that
\* passes the checks always yields a frame (sent, or dropped by try_send).
C14_NoMetadataNeverFailsFrame ==
    /\ PlainFrames(chan)
    /\ PlainFrames(received)
    /\ \A i \in 1..Len(constructed) : constructed[i].damage = "None"
    /\ ValidBuffer(last.buf) =>
          /\ last.outcome \in {"sent", "dropped"}
          /\ constructed # << >>
          /\ constructed[Len(constructed)].sequence = seq - 1

\* A valid buffer was just sent as a plain Frame event.
C14_Witness ==
    /\ ValidBuffer(last.buf)
    /\ last.outcome = "sent"
    /\ chan # << >>
    /\ chan[Len(chan)].tag = "Frame"
    /\ chan[Len(chan)].frame.damage = "None"

\* Sequence numbers of the frames of a sequence of events.
SeqsOf(events) == { events[i].frame.sequence : i \in 1..Len(events) }

Rejections == {"degenerate", "zero_dimension", "out_of_bounds"}

\* C17: the consumer receives strictly increasing sequence numbers; a number
\* below one it has received is missing exactly when that frame's try_send
\* failed; while the receiver lives every number drawn is received, queued
\* or dropped by a failed send; the counter equals the number of constructed
\* frames, advances by one with each of them whether or not the send
\* succeeds, and a rejected buffer leaves it as it was.
C17_GapsAreDroppedFrames ==
    /\ [](/\ \A i, j \in 1..Len(received) :
                i < j => received[i].frame.sequence < received[j].frame.sequence
          /\ seq = Len(constructed)
          /\ \A i \in 1..Len(constructed) : constructed[i].sequence = i - 1
          /\ dropped \subseteq 0..(seq - 1)
          /\ \A n \in 0..(seq - 1) :
                (\E m \in SeqsOf(received) : m > n) =>
                    (n \notin SeqsOf(received) <=> n \in dropped)
          /\ rx_open =>
                /\ SeqsOf(received) \cup SeqsOf(chan) \cup dropped = 0..(seq - 1)
                /\ SeqsOf(received) \cap dropped = {}
                /\ SeqsOf(chan) \cap dropped = {}
                /\ SeqsOf(received) \cap SeqsOf(chan) = {})
    /\ [][ProcessStep =>
            /\ last'.outcome \in {"sent", "dropped"} =>
                  /\ seq' = seq + 1
                  /\ Len(constructed') = Len(constructed) + 1
            /\ last'.outcome \in Rejections =>
                  /\ seq' = seq
                  /\ constructed' = constructed
                  /\ dropped' = dropped]_vars

\* Frame 0 received, frame 1 dropped on a full channel, frame 2 received: the
\* consumer sees the gap at 1.
C17_Witness ==
    /\ dropped = {1}
    /\ SeqsOf(received) = {0, 2}
    /\ seq = 3
    /\ rx_open

\* C18: whenever the caller is inside join() the flag is already cleared and
\* the handle's thread slot is empty; join() is begun at most once per
\* handle; after a stop() has returned and after the handle is dropped the
\* thread has been joined exactly once and has finished.
C18_FlagClearedThenJoinedOnce ==
    /\ c_pc \in {"stop_join", "drop_join"} => ~running /\ thread = "None"
    /\ join_calls <= 1
    /\ join_calls = 1 <=> (h_state # "none" /\ thread = "None")
    /\ stop_returns >= 1 =>
          /\ join_calls = 1
          /\ ~running
          /\ t_pc \in {"exited", "panicked"}
    /\ h_state = "dropped" =>
          /\ join_calls = 1
          /\ ~running
          /\ c_pc = "idle"
          /\ t_pc \in {"exited", "panicked"}

\* stop() twice, then the handle dropped: one join.
C18_Witness ==
    /\ h_state = "dropped"
    /\ stop_calls = 2
    /\ stop_returns = 2
    /\ join_calls = 1
    /\ t_pc = "exited"

\* C16: once stop() has cleared the flag and waits in join(), the capture
\* thread finishes and stop() returns, whatever the consumer does and
\* wherever the thread is, initialization included; the same holds for the
\* stop() that a drop of the handle runs.
C16_StopReturnsWithoutConsumer ==
    /\ (c_pc = "stop_join") ~>
          (stop_returns >= 1 /\ c_pc = "idle" /\ t_pc \in {"exited", "panicked"})
    /\ (c_pc = "drop_join") ~>
          (h_state = "dropped" /\ t_pc \in {"exited", "panicked"})
    /\ [][(c_pc = "idle" /\ c_pc' = "stop_join") => ~running']_vars

\* stop() has returned while the channel is full and the consumer has never
\* received anything.
C16_Witness ==
    /\ stop_returns >= 1
    /\ t_pc = "exited"
    /\ rx_open
    /\ received = << >>
    /\ Len(chan) = capacity

\* Fields of a CapturedFrame other than its data.
OtherFields == {"width", "height", "format", "stride", "sequence", "damage"}

\* C12: after ensure_alpha_opaque a Bgra frame has 0xFF in the 4th byte of
\* each of its Len / 4 complete pixels and every other byte as before, an
\* Rgba frame is as before, the data length and the other fields are as
\* before, and a second call leaves the frame as the first call made it.
C12_AlphaOpaqueOnlyFourthBytes ==
    a_calls >= 1 =>
        /\ Len(a_frame.data) = Len(a_orig.data)
        /\ \A k \in OtherFields : a_frame[k] = a_orig[k]
        /\ a_orig.format = "Bgra" =>
              /\ \A px \in 1..(Len(a_orig.data) \div 4) :
                    a_frame.data[4 * px] = 255
              /\ \A i \in 1..Len(a_orig.data) :
                    i % 4 # 0 => a_frame.data[i] = a_orig.data[i]
        /\ a_orig.format = "Rgba" => a_frame = a_orig
        /\ a_calls >= 2 => a_frame = a_prev

\* A Bgra frame of one complete pixel and three trailing bytes, its alpha
\* byte 0 before and 0xFF after two calls, its trailing bytes untouched.
C12_Witness ==
    /\ a_calls = 2
    /\ a_orig.format = "Bgra"
    /\ a_orig.data = << 0, 127, 255, 0, 127, 0, 0 >>
    /\ a_frame.data = << 0, 127, 255, 255, 127, 0, 0 >>

\* Primes below 2^15 whose product exceeds 2^60: a number below 2^60 is
\* determined by its residues.
Moduli == {32749, 32719, 32717, 32713, 32707}

\* The residue modulo p of the u64 with digits l.
LimbsMod(l, p) ==
    LET b == LimbBase % p
        h3 == l[4] % p
        h2 == (h3 * b + l[3]) % p
        h1 == (h2 * b + l[2]) % p
    IN  (h1 * b + l[1]) % p

\* C15: full_frame(w, h) is the rectangle x = 0, y = 0, width = w,
\* height = h, new keeps its four arguments, and area() is the product
\* width * height as a natural number (each digit in range, every residue
\* that of the product), also where the product reaches 2^32 and beyond.
C15_FullFrameAndArea ==
    /\ r_via = "full_frame" =>
          /\ r_rect.x = 0
          /\ r_rect.y = 0
          /\ r_rect.width = r_args.width
          /\ r_rect.height = r_args.height
    /\ r_via = "new" =>
          r_rect = [x |-> r_args.x, y |-> r_args.y, width |-> r_args.width,
                    height |-> r_args.height]
    /\ r_area # NoArea =>
          /\ Len(r_area) = 4
          /\ \A i \in 1..4 : r_area[i] \in 0..(LimbBase - 1)
          /\ \A p \in Moduli :
                LimbsMod(r_area, p) =
                    ((r_rect.width % p) * (r_rect.height % p)) % p
          /\ (r_rect.width = 65535 /\ r_rect.height = 65535) =>
                r_area = << 1, 32764, 3, 0 >>
          /\ (r_rect.width = 1920 /\ r_rect.height = 1) =>
                r_area = << 1920, 0, 0, 0 >>

\* The full-frame rectangle of 65536 x 65536 has area 2^32 = 4 * (2^15)^2.
C15_Witness ==
    /\ r_via = "full_frame"
    /\ r_rect = [x |-> 0, y |-> 0, width |-> 65536, height |-> 65536]
    /\ r_area = << 0, 0, 4, 0 >>

\* The step of a behaviour in which resize ran.
ResizeStep == e_calls' = e_calls + 1

\* C13: after a resize the encoder reports the width and height of the
\* latest resize; a resize with the arguments of the one before leaves the
\* encoder as it was; and a resize leaves the channel, the frames constructed
\* and received, the sequence counter and the rest of the session as they
\* were.
C13_ResizeChangesOnlyGeometry ==
    /\ [](e_last.called =>
            /\ EncoderWidth(e_enc) = e_last.width
            /\ EncoderHeight(e_enc) = e_last.height)
    /\ [][ResizeStep =>
            /\ EncoderWidth(e_enc') = e_last'.width
            /\ EncoderHeight(e_enc') = e_last'.height
            /\ (e_last.called /\ e_last' = e_last) => e_enc' = e_enc
            /\ UNCHANGED << chan, received, dropped, constructed, seq,
                            deliveries, last, tx_open, rx_open, t_pc,
                            running >>]_vars

\* An encoder of 1920 x 1080 resized twice to 1280 x 720 while a frame is
\* queued and another has been received.
C13_Witness ==
    /\ e_calls = 2
    /\ e_last = [width |-> 1280, height |-> 720, called |-> TRUE]
    /\ e_enc = BitmapEncoder(1280, 720)
    /\ chan # << >>
    /\ received # << >>
    /\ seq >= 2

\* The digits of base LimbBase of a u32 / usize value below 2^32, padded to
\* five digits.
WLimbs(a) ==
    << a.low % LimbBase, (a.low \div LimbBase) % LimbBase,
       a.low \div (LimbBase * LimbBase) + 2 * a.top, 0, 0 >>

\* The product of two values below 2^32 as five digits.
LimbsMul(a, b) ==
    LET p0 == a[1] * b[1]
        t1 == a[1] * b[2] + a[2] * b[1] + p0 \div LimbBase
        t2 == a[1] * b[3] + a[2] * b[2] + a[3] * b[1] + t1 \div LimbBase
        t3 == a[2] * b[3] + a[3] * b[2] + t2 \div LimbBase
        t4 == a[3] * b[3] + t3 \div LimbBase
    IN  << p0 % LimbBase, t1 % LimbBase, t2 % LimbBase, t3 % LimbBase, t4 >>

\* x <= y for two numbers of five digits.
LimbsLeq(x, y) ==
    \/ x = y
    \/ \E k \in 1..5 : x[k] < y[k] /\ \A j \in (k + 1)..5 : x[j] = y[j]

\* C19: every constructed frame has width >= 1, height >= 1,
\* stride >= 4 * width and height * stride <= length of its data; the data
\* of the frame just constructed is the range offset..offset+size of the
\* slice (size bytes from offset), which lies inside the slice.
C19_ConstructedFramesWellFormed ==
    /\ \A i \in 1..Len(constructed) :
          LET f == constructed[i] IN
          /\ f.width >= 1
          /\ WGeq(f.height, W(1))
          /\ WGeq(f.stride, WAdd(WAdd(W(f.width), W(f.width)),
                                 WAdd(W(f.width), W(f.width))))
          /\ LimbsLeq(LimbsMul(WLimbs(f.height), WLimbs(f.stride)),
                      WLimbs(f.data.len))
    /\ last.outcome \in {"sent", "dropped"} =>
          LET f == constructed[Len(constructed)] IN
          /\ f.data.from = last.buf.offset
          /\ f.data.len = last.buf.size
          /\ WGeq(last.buf.slice.len, WAdd(last.buf.offset, last.buf.size))

\* A frame of one row of 1920 pixels copied from offset 64, and before it a
\* frame of 2^32 - 4 bytes.
C19_Witness ==
    /\ last.outcome = "sent"
    /\ last.buf.stride = 7680
    /\ last.buf.offset = W(64)
    /\ Len(constructed) = 2
    /\ constructed[2].width = 1920
    /\ constructed[2].height = W(1)
    /\ constructed[2].data = [from |-> W(64), len |-> W(7680)]
    /\ constructed[1].data.len = [top |-> 1, low |-> I32Max - 3]

\* C20: a buffer whose chunk reports a negative stride is rejected by
\* process_frame whatever its size: no frame is constructed, nothing is sent
\* and the sequence counter stays as it was.
C20_NegativeStrideRejected ==
    [][(ProcessStep /\ last'.buf.kind = "data" /\ last'.buf.stride < 0) =>
            /\ last'.outcome \notin {"sent", "dropped"}
            /\ seq' = seq
            /\ constructed' = constructed
            /\ chan' = chan]_vars

\* The step of a behaviour in which recv() returned an event.
RecvStep == Len(received') = Len(received) + 1

\* C21: once a stop() has returned the thread has finished and the Sender is
\* gone, no frame is constructed and nothing is added to the channel any
\* more (what is queued only leaves it, oldest first, or is discarded with
\* the receiver), and each recv() yields the oldest queued event; the
\* consumer meets
\* the end of the stream only when the channel is empty and the Sender is
\* gone, having received every frame that was sent; and whenever the thread
\* has exited (after stop() or after an initialization error) a consumer
\* that keeps receiving meets the end of the stream.
C21_EndOfStreamAfterExit ==
    /\ [](/\ stop_returns >= 1 => (~tx_open /\ t_pc = "exited")
          /\ t_pc = "exited" => ~tx_open
          /\ rx_eos =>
                /\ ~tx_open
                /\ chan = << >>
                /\ t_pc = "exited"
                /\ SeqsOf(received) \cup dropped = 0..(seq - 1))
    /\ [][stop_returns >= 1 =>
            /\ constructed' = constructed
            /\ seq' = seq
            /\ \E k \in 0..Len(chan) : chan' = SubSeq(chan, k + 1, Len(chan))
            /\ RecvStep => received' = Append(received, Head(chan))
            /\ ~tx_open']_vars
    /\ [][rx_eos => (rx_eos' /\ received' = received)]_vars
    /\ (t_pc = "exited" /\ rx_open) ~> (rx_eos \/ ~rx_open)

\* stop() has returned, then the consumer received the frame that was still
\* queued and met the end of the stream.
C21_Witness ==
    /\ stop_returns >= 1
    /\ rx_eos
    /\ rx_open
    /\ Len(received) = 1
    /\ capacity = 1
    /\ dropped # {}

=============================================================================
